---- MODULE Spec2Model ----
(***************************************************************************)
(* Model of analyze_reviews.py: the extraction of per-(row, version key)   *)
(* validation records from wide CSV exports (process_csv_exports), the     *)
(* normalisation of the validation verdict (normalize_boolean_str) and the *)
(* aggregate statistics (analyze_validation_data), driven by __main__.     *)
(*                                                                         *)
(* A Python string is a sequence of one-character strings.  A column name  *)
(* is the sequence of its '_'-separated pieces ("v1_Invalid_Reason" is     *)
(* <<"v1", "Invalid", "Reason">>, "_Comments" is <<"", "Comments">>), so    *)
(* that joining two names with '_' is the concatenation of the sequences.  *)
(* A Python value is a record [t, b, n, s]: t is its type, b, n and s the   *)
(* payload of a bool, a number and a string.                               *)
(***************************************************************************)
EXTENDS Integers, Sequences, FiniteSets, TLC

VARIABLES files, i, all_validation_data, pc, aggregated_data, report, log,
          value, result

vars == <<files, i, all_validation_data, pc, aggregated_data, report, log,
          value, result>>

(***************************************************************************)
(* Bounds of the model.                                                    *)
(***************************************************************************)
MaxFiles == 2
MaxRows == 1
MaxStrLen == 2

(***************************************************************************)
(* Python values.                                                          *)
(***************************************************************************)
Bool(b) == [t |-> "bool", b |-> b, n |-> 0, s |-> <<>>]
Num(n) == [t |-> "num", b |-> FALSE, n |-> n, s |-> <<>>]
Str(s) == [t |-> "str", b |-> FALSE, n |-> 0, s |-> s]
None == [t |-> "none", b |-> FALSE, n |-> 0, s |-> <<>>]
\* float('nan'), the missing-value marker of pandas: a float that is not None
NaN == [t |-> "nan", b |-> FALSE, n |-> 0, s |-> <<>>]

\* pd.notna / pd.isna of a scalar
isna(v) == v.t \in {"none", "nan"}

(***************************************************************************)
(* str.strip() and str.lower()                                             *)
(***************************************************************************)
UpperCase == <<"A", "B", "C", "D", "E", "F", "G", "H", "I", "J", "K", "L", "M",
               "N", "O", "P", "Q", "R", "S", "T", "U", "V", "W", "X", "Y", "Z">>
LowerCase == <<"a", "b", "c", "d", "e", "f", "g", "h", "i", "j", "k", "l", "m",
               "n", "o", "p", "q", "r", "s", "t", "u", "v", "w", "x", "y", "z">>
Whitespace == {" ", "\t", "\n", "\r"}

lower_char(c) ==
    IF \E k \in 1..Len(UpperCase) : UpperCase[k] = c
    THEN LowerCase[CHOOSE k \in 1..Len(UpperCase) : UpperCase[k] = c]
    ELSE c

lower(s) == [k \in 1..Len(s) |-> lower_char(s[k])]

RECURSIVE lstrip(_)
lstrip(s) == IF s # <<>> /\ Head(s) \in Whitespace THEN lstrip(Tail(s)) ELSE s

RECURSIVE rstrip(_)
rstrip(s) ==
    IF s # <<>> /\ s[Len(s)] \in Whitespace
    THEN rstrip(SubSeq(s, 1, Len(s) - 1))
    ELSE s

strip(s) == rstrip(lstrip(s))

(***************************************************************************)
(* normalize_boolean_str                                                   *)
(***************************************************************************)
TrueWords == { <<"t", "r", "u", "e">>, <<"1">>, <<"y", "e", "s">>,
               <<"v", "a", "l", "i", "d">> }
FalseWords == { <<"f", "a", "l", "s", "e">>, <<"0">>, <<"n", "o">>,
                <<"i", "n", "v", "a", "l", "i", "d">> }

\* bool(value) of an int or a float: zero is false, everything else,
\* float('nan') included, is true
bool_of_number(v) == IF v.t = "nan" THEN TRUE ELSE v.n # 0

normalize_boolean_str(v) ==
    IF v.t = "bool" THEN v
    ELSE IF v.t \in {"num", "nan"} THEN Bool(bool_of_number(v))
    ELSE IF v.t = "str" /\ lower(strip(v.s)) \in TrueWords THEN Bool(TRUE)
    ELSE IF v.t = "str" /\ lower(strip(v.s)) \in FalseWords THEN Bool(FALSE)
    ELSE None

(***************************************************************************)
(* Column names of process_csv_exports                                     *)
(***************************************************************************)
id_col == <<"Encounter ID">>
date_col == <<"Note Date">>
gt_col == <<"Ground Truth">>

\* the alternatives of version_pattern
Suffixes == { <<"Validation", "Result">>, <<"Invalid", "Reason">>, <<"Comments">>,
              <<"Final", "Prediction">>, <<"Raw", "Prediction">>,
              <<"Final", "Confidence">>, <<"Raw", "Confidence">>,
              <<"Attribution">> }

\* f"{vk}_Validation_Result" and its siblings
val_col(vk) == vk \o <<"Validation", "Result">>
rea_col(vk) == vk \o <<"Invalid", "Reason">>
com_col(vk) == vk \o <<"Comments">>
pred_col(vk) == vk \o <<"Final", "Prediction">>

\* version_pattern.match(col): the lengths of the prefixes p with
\* col = p + "_" + suffix; the lazy group takes the shortest
PrefixLens(col) ==
    { k \in 1..(Len(col) - 1) : SubSeq(col, k + 1, Len(col)) \in Suffixes }

version_pattern_match(col) == PrefixLens(col) # {}

match_group1(col) ==
    SubSeq(col, 1, CHOOSE k \in PrefixLens(col) : \A m \in PrefixLens(col) : k <= m)

version_keys_found(cols) ==
    { match_group1(col) : col \in { c \in cols : version_pattern_match(c) } }

\* The version keys of the model's tables in the order of Python's string
\* comparison of their names: "v1" < "v1_b" < "v2".
KeyOrder == << <<"v1">>, <<"v1", "b">>, <<"v2">> >>

RECURSIVE FilterSeq(_, _)
FilterSeq(seq, S) ==
    IF seq = <<>> THEN <<>>
    ELSE IF Head(seq) \in S THEN <<Head(seq)>> \o FilterSeq(Tail(seq), S)
    ELSE FilterSeq(Tail(seq), S)

\* sorted(list(version_keys_found))
sorted_versions(keys) == FilterSeq(KeyOrder, keys)

(***************************************************************************)
(* The input files.  A file is unreadable (missing, or rejected by         *)
(* pd.read_csv) or holds a header and rows of text cells.                  *)
(***************************************************************************)
AllCols == { <<"Encounter ID">>, <<"Note Date">>, <<"Ground Truth">>,
             <<"v1", "Validation", "Result">>, <<"v1", "Invalid", "Reason">>,
             <<"v1", "Comments">>, <<"v1", "Final", "Prediction">>,
             <<"v2", "Validation", "Result">>, <<"v2", "Invalid", "Reason">>,
             <<"v2", "Final", "Prediction">>,
             <<"v2", "Raw", "Confidence">>,
             <<"v1", "b", "Validation", "Result">>, <<"v1", "b", "Attribution">>,
             <<"Comments">>, <<"Reviewer">> }

\* the headers of the files: name of the file |-> its columns
Headers ==
    [ fA |-> { <<"Encounter ID">>, <<"Note Date">>, <<"Ground Truth">>,
               <<"v1", "Validation", "Result">>, <<"v1", "Invalid", "Reason">>,
               <<"v1", "Comments">>, <<"v1", "Final", "Prediction">>,
               <<"v2", "Validation", "Result">>, <<"v2", "Invalid", "Reason">>,
               <<"v2", "Final", "Prediction">> },
      fB |-> { <<"Encounter ID">>, <<"Note Date">>,
               <<"v1", "Validation", "Result">>, <<"v2", "Raw", "Confidence">> },
      fC |-> { <<"Encounter ID">>, <<"Note Date">>, <<"Ground Truth">>,
               <<"v2", "Validation", "Result">>, <<"v2", "Final", "Prediction">>,
               <<"v1", "b", "Validation", "Result">>, <<"v1", "b", "Attribution">> },
      fD |-> { <<"Note Date">>, <<"Ground Truth">>,
               <<"v1", "Validation", "Result">>, <<"v1", "Invalid", "Reason">>,
               <<"v1", "Final", "Prediction">> },
      fE |-> { <<"Encounter ID">>, <<"Ground Truth">>,
               <<"v1", "Validation", "Result">>, <<"v1", "Invalid", "Reason">>,
               <<"v1", "Final", "Prediction">> },
      fF |-> { <<"Encounter ID">>, <<"Note Date">>, <<"Ground Truth">>, <<"Comments">>, <<"Reviewer">> } ]

FileNames == DOMAIN Headers

\* the text of the cells of a line, column |-> text
Line(id, gt, vr1, re1, pr1, vr2, re2, pr2) ==
    [ c \in AllCols |->
        CASE c = <<"Encounter ID">> -> id
          [] c = <<"Note Date">> -> <<"2", "5">>
          [] c = <<"Ground Truth">> -> gt
          [] c = <<"v1", "Validation", "Result">> -> vr1
          [] c = <<"v1", "Invalid", "Reason">> -> re1
          [] c = <<"v1", "Comments">> -> <<"o", "k">>
          [] c = <<"v1", "Final", "Prediction">> -> pr1
          [] c = <<"v2", "Validation", "Result">> -> vr2
          [] c = <<"v2", "Invalid", "Reason">> -> re2
          [] c = <<"v2", "Final", "Prediction">> -> pr2
          [] c = <<"v1", "b", "Validation", "Result">> -> vr2
          [] OTHER -> <<"x">> ]

Lines ==
    << Line(<<"e", "1">>, <<" ", "l", "o", "n", "g", "e", "r", " ">>,
           <<"T", "R", "U", "E", " ">>, <<>>, <<"L", "o", "n", "g", "e", "r">>,
           <<"n", "o">>, <<>>, <<"s", "h", "o", "r", "t">>),
      Line(<<"e", "2">>, <<"S", "h", "o", "r", "t">>,
           <<"0">>, <<"w", "r", "o", "n", "g", "_", "s", "p", "a", "n">>, <<" ", " ">>,
           <<"n", "/", "a">>, <<"o", "t", "h", "e", "r">>, <<"s", "h", "o", "r", "t">>),
      Line(<<"e", "3">>, <<>>,
           <<"m", "a", "y", "b", "e">>, <<"o", "t", "h", "e", "r">>, <<>>,
           <<" ", "Y", "e", "s">>, <<>>, <<"L", "o", "n", "g", "e", "r">>),
      Line(<<"e", "4">>, <<"l", "o", "n", "g", "e", "r">>,
           <<>>, <<>>, <<"l", "o", "n", "g", "e", "r">>,
           <<"I", "n", "v", "a", "l", "i", "d">>,
           <<"o", "t", "h", "e", "r">>, <<"N", "A">>) >>

\* the rows of one export: at most n consecutive lines of Lines
Chunks(n) ==
    UNION { { SubSeq(Lines, a, a + k - 1) : a \in 1..(Len(Lines) - k + 1) } :
            k \in 0..n }

RECURSIVE SeqsUpTo(_, _)
SeqsUpTo(S, n) ==
    IF n = 0 THEN { <<>> }
    ELSE LET shorter == SeqsUpTo(S, n - 1)
         IN  shorter \cup { Append(q, x) : q \in shorter, x \in S }

\* the export with every column carries each chunk, the export without
\* optional columns a line with a clear or an unclear result, the other
\* exports the first line
RowsOf(nm) ==
    CASE nm = "fA" -> Chunks(MaxRows)
      [] nm = "fB" -> { <<Lines[1]>>, <<Lines[3]>> }
      [] OTHER -> { <<Lines[1]>> }

Files ==
    { [name |-> "missing", readable |-> FALSE, cols |-> {}, lines |-> <<>>] }
    \cup UNION { { [name |-> nm, readable |-> TRUE, cols |-> Headers[nm],
                    lines |-> [k \in 1..Len(ls) |->
                                 [c \in Headers[nm] |-> ls[k][c]]]] :
                   ls \in RowsOf(nm) } : nm \in FileNames }

(***************************************************************************)
(* pd.read_csv(f, dtype=str): a cell whose text is one of the default      *)
(* missing-value markers is read as NaN, every other cell as its text.     *)
(***************************************************************************)
\* the default markers of pandas that are made of letters, '/', '#', '<', '>'
NaValues == { <<>>, <<"N", "A">>, <<"N", "/", "A">>, <<"n", "/", "a">>,
              <<"N", "a", "N">>, <<"n", "a", "n">>, <<"n", "u", "l", "l">>,
              <<"N", "U", "L", "L">>,
              <<"#", "N", "/", "A">>, <<"<", "N", "A", ">">> }

read_cell(text) == IF text \in NaValues THEN NaN ELSE Str(text)

\* the DataFrame: its columns and its rows, column |-> value
read_csv(f) ==
    [ columns |-> f.cols,
      rows |-> [k \in 1..Len(f.lines) |->
                  [c \in f.cols |-> read_cell(f.lines[k][c])]] ]

\* row.get(col): the value of the cell, None when the column is missing
row_get(df, row, col) == IF col \in df.columns THEN row[col] ELSE None

(***************************************************************************)
(* process_csv_exports: the body of the loop over the files                *)
(***************************************************************************)
readable(f) == f.readable

\* a test that forgets the note date
has_base_columns_id_only(df) == id_col \in df.columns

has_base_columns(df) == id_col \in df.columns /\ date_col \in df.columns

gt_col_exists(df) == gt_col \in df.columns

base_info(f, df, row) ==
    [ EncounterID |-> row_get(df, row, id_col),
      NoteDate |-> row_get(df, row, date_col),
      GroundTruth |-> IF gt_col_exists(df) THEN row_get(df, row, gt_col) ELSE None,
      SourceFile |-> f.name ]

\* a test that forgets pd.notna
result_exists_none_only(validation_result_raw) ==
    validation_result_raw.t # "none"

\* the test that guards the creation of a record
result_exists(validation_result_raw) ==
    validation_result_raw.t # "none" /\ ~isna(validation_result_raw)

\* a record whose invalid reason is read from the comments column
make_record_wrong_column(f, df, row, vk) ==
    LET b == base_info(f, df, row)
        validation_result_raw == row_get(df, row, val_col(vk))
    IN  [ EncounterID |-> b.EncounterID,
          NoteDate |-> b.NoteDate,
          GroundTruth |-> b.GroundTruth,
          SourceFile |-> b.SourceFile,
          VersionKey |-> vk,
          ValidationResult_Raw |-> validation_result_raw,
          ValidationResult |-> normalize_boolean_str(validation_result_raw),
          InvalidReason |-> row_get(df, row, com_col(vk)),
          Comments |-> row_get(df, row, com_col(vk)),
          PredictedClass |-> row_get(df, row, pred_col(vk)) ]

make_record(f, df, row, vk) ==
    LET b == base_info(f, df, row)
        validation_result_raw == row_get(df, row, val_col(vk))
    IN  [ EncounterID |-> b.EncounterID,
          NoteDate |-> b.NoteDate,
          GroundTruth |-> b.GroundTruth,
          SourceFile |-> b.SourceFile,
          VersionKey |-> vk,
          ValidationResult_Raw |-> validation_result_raw,
          ValidationResult |-> normalize_boolean_str(validation_result_raw),
          InvalidReason |-> row_get(df, row, rea_col(vk)),
          Comments |-> row_get(df, row, com_col(vk)),
          PredictedClass |-> row_get(df, row, pred_col(vk)) ]

\* the inner loop over sorted_versions for one row
RECURSIVE row_records(_, _, _, _)
row_records(f, df, row, vks) ==
    IF vks = <<>> THEN <<>>
    ELSE LET vk == Head(vks)
             rest == row_records(f, df, row, Tail(vks))
         IN  IF result_exists(row_get(df, row, val_col(vk)))
             THEN <<make_record(f, df, row, vk)>> \o rest
             ELSE rest

\* the loop over df.iterrows(), rows k..len(df)
RECURSIVE rows_records(_, _, _, _)
rows_records(f, df, vks, k) ==
    IF k > Len(df.rows) THEN <<>>
    ELSE row_records(f, df, df.rows[k], vks) \o rows_records(f, df, vks, k + 1)

file_data(f) ==
    LET df == read_csv(f)
    IN  rows_records(f, df, sorted_versions(version_keys_found(df.columns)), 1)

\* a collection that is replaced by the records of the file
extend_overwrite(acc, f) == file_data(f)

\* all_validation_data.extend(file_data)
extend(acc, f) == acc \o file_data(f)

\* the collection after the loop has run over the first n files
RECURSIVE process_csv_exports(_, _)
process_csv_exports(fs, n) ==
    IF n = 0 THEN <<>>
    ELSE LET acc == process_csv_exports(fs, n - 1)
             f == fs[n]
         IN  IF /\ readable(f)
                /\ has_base_columns(read_csv(f))
                /\ version_keys_found(read_csv(f).columns) # {}
             THEN extend(acc, f)
             ELSE acc

(***************************************************************************)
(* analyze_validation_data                                                 *)
(***************************************************************************)
\* a second mapping that does not trim the text
renormalize_untrimmed(df) ==
    [k \in 1..Len(df) |->
        [df[k] EXCEPT !.ValidationResult =
            IF df[k].ValidationResult_Raw.s = strip(df[k].ValidationResult_Raw.s)
            THEN normalize_boolean_str(df[k].ValidationResult_Raw)
            ELSE None]]

\* df['ValidationResult'] = df['ValidationResult_Raw'].apply(normalize_boolean_str)
renormalize(df) ==
    [k \in 1..Len(df) |->
        [df[k] EXCEPT !.ValidationResult = normalize_boolean_str(df[k].ValidationResult_Raw)]]

\* a filter that keeps every record
has_result_any(r) == TRUE

\* df.dropna(subset=['ValidationResult'])
has_result(r) == ~isna(r.ValidationResult)
valid_results_df(df) == SelectSeq(renormalize(df), has_result)

\* a quotient that is printed as a percentage
Rate(num, den) == [num |-> num, den |-> den]

\* a count of the results instead of a sum of them
is_true_any_bool(r) == r.ValidationResult.t = "bool"

is_true(r) == r.ValidationResult = Bool(TRUE)
is_false(r) == r.ValidationResult = Bool(FALSE)

\* Overall Validation Summary
overall_summary(vdf) ==
    LET total_reviews == Len(vdf)
        total_valid == Cardinality({ k \in 1..Len(vdf) : is_true(vdf[k]) })
        total_invalid == total_reviews - total_valid
    IN  [ computed |-> TRUE,
          total |-> total_reviews,
          valid |-> total_valid,
          invalid |-> total_invalid,
          valid_rate |-> Rate(total_valid, total_reviews),
          invalid_rate |-> Rate(total_invalid, total_reviews) ]

\* the groups of df.groupby('VersionKey')
group_keys(df) == { df[k].VersionKey : k \in 1..Len(df) }

\* a summary whose valid count is not restricted to the group
version_summary_ungrouped(vdf) ==
    [ vk \in group_keys(vdf) |->
        LET count == Cardinality({ k \in 1..Len(vdf) : vdf[k].VersionKey = vk })
            sum == Cardinality({ k \in 1..Len(vdf) : is_true(vdf[k]) })
        IN  [ total |-> count,
              valid |-> sum,
              invalid |-> count - sum,
              valid_rate |-> Rate(sum, count),
              invalid_rate |-> Rate(count - sum, count) ] ]

\* Validation Summary by Version Key
version_summary(vdf) ==
    [ vk \in group_keys(vdf) |->
        LET count == Cardinality({ k \in 1..Len(vdf) : vdf[k].VersionKey = vk })
            sum == Cardinality({ k \in 1..Len(vdf) :
                                   vdf[k].VersionKey = vk /\ is_true(vdf[k]) })
        IN  [ total |-> count,
              valid |-> sum,
              invalid |-> count - sum,
              valid_rate |-> Rate(sum, count),
              invalid_rate |-> Rate(count - sum, count) ] ]

invalid_df(vdf) == SelectSeq(vdf, is_false)

\* a grouping that keeps the rows without reason
has_reason_any(r) == TRUE

\* groupby(['VersionKey', 'InvalidReason']) leaves out the rows whose
\* InvalidReason is missing (dropna=True)
has_reason(r) == ~isna(r.InvalidReason)

RECURSIVE SumOver(_, _)
SumOver(f, S) ==
    IF S = {} THEN 0
    ELSE LET x == CHOOSE y \in S : TRUE
         IN  f[x] + SumOver(f, S \ {x})

\* Invalid Reason Analysis: size().unstack(fill_value=0), the column
\* 'Total Invalid' and the row 'Total'.  When no invalid record has a reason
\* the grouping is empty and the table has no cell and a grand total of 0.
reason_summary(vdf) ==
    LET grouped == SelectSeq(invalid_df(vdf), has_reason)
        index == group_keys(grouped)
        columns == { grouped[k].InvalidReason.s : k \in 1..Len(grouped) }
        cell == [ p \in index \X columns |->
                    Cardinality({ k \in 1..Len(grouped) :
                        /\ grouped[k].VersionKey = p[1]
                        /\ grouped[k].InvalidReason.s = p[2] }) ]
        total_invalid == [ vk \in index |->
                             SumOver([ c \in columns |-> cell[<<vk, c>>] ], columns) ]
        total == [ c \in columns |->
                     SumOver([ vk \in index |-> cell[<<vk, c>>] ], index) ]
    IN  [ computed |-> TRUE,
          index |-> index,
          columns |-> columns,
          cell |-> cell,
          total_invalid |-> total_invalid,
          total |-> total,
          grand_total |-> SumOver(total_invalid, index) ]

\* dropna(subset=['Ground Truth', 'PredictedClass'])
has_gt_and_pred(r) == ~isna(r.GroundTruth) /\ ~isna(r.PredictedClass)

\* a comparison text that keeps its case
comp_no_lower(v) == strip(v.s)

\* astype(str).str.strip().str.lower()
comp(v) == lower(strip(v.s))

non_empty_comp(r) == comp(r.GroundTruth) # <<>> /\ comp(r.PredictedClass) # <<>>

final_gt_df(vdf) == SelectSeq(SelectSeq(vdf, has_gt_and_pred), non_empty_comp)

\* Agreement with Ground Truth
gt_summary(vdf) ==
    LET g == final_gt_df(vdf)
    IN  [ vk \in group_keys(g) |->
            LET total == Cardinality({ k \in 1..Len(g) : g[k].VersionKey = vk })
                matches == Cardinality({ k \in 1..Len(g) :
                    g[k].VersionKey = vk
                    /\ comp(g[k].PredictedClass) = comp(g[k].GroundTruth) })
                mismatches == Cardinality({ k \in 1..Len(g) :
                    g[k].VersionKey = vk
                    /\ comp(g[k].PredictedClass) # comp(g[k].GroundTruth) })
            IN  [ total |-> total,
                  matches |-> matches,
                  mismatches |-> mismatches,
                  agreement_rate |->
                      IF total > 0 THEN Rate(matches, total) ELSE Rate(0, 1),
                  disagreement_rate |->
                      IF total > 0 THEN Rate(mismatches, total) ELSE Rate(0, 1) ] ]

\* the tables that a run has not computed
NoOverall == [ computed |-> FALSE, total |-> 0, valid |-> 0, invalid |-> 0,
               valid_rate |-> Rate(0, 1), invalid_rate |-> Rate(0, 1) ]
NoReasons == [ computed |-> FALSE, index |-> {}, columns |-> {}, cell |-> <<>>,
               total_invalid |-> <<>>, total |-> <<>>, grand_total |-> 0 ]
NoReport == [ status |-> "none", records |-> 0, analyzed |-> 0,
              overall |-> NoOverall,
              summary_computed |-> FALSE, summary |-> <<>>,
              reasons |-> NoReasons,
              gt_computed |-> FALSE, gt |-> <<>> ]

\* an analysis without the early return for no record with a clear status
analysis_no_guard(df) ==
    LET vdf == valid_results_df(df)
    IN  [ status |-> "analyzed",
          records |-> Len(df),
          analyzed |-> Len(vdf),
          overall |-> overall_summary(vdf),
          summary_computed |-> TRUE,
          summary |-> version_summary(vdf),
          reasons |-> IF invalid_df(vdf) # <<>> THEN reason_summary(vdf)
                      ELSE NoReasons,
          gt_computed |-> final_gt_df(vdf) # <<>>,
          gt |-> gt_summary(vdf) ]

\* what analyze_validation_data computes from a non-empty DataFrame
analysis(df) ==
    LET vdf == valid_results_df(df)
    IN  IF vdf = <<>>
        THEN [ NoReport EXCEPT !.status = "no_clear_status", !.records = Len(df) ]
        ELSE [ status |-> "analyzed",
               records |-> Len(df),
               analyzed |-> Len(vdf),
               overall |-> overall_summary(vdf),
               summary_computed |-> TRUE,
               summary |-> version_summary(vdf),
               reasons |-> IF invalid_df(vdf) # <<>> THEN reason_summary(vdf)
                           ELSE NoReasons,
               gt_computed |-> final_gt_df(vdf) # <<>>,
               gt |-> gt_summary(vdf) ]

\* what a run of __main__ over the files reports
main(fs) ==
    IF fs = <<>> \/ process_csv_exports(fs, Len(fs)) = <<>> THEN NoReport
    ELSE analysis(process_csv_exports(fs, Len(fs)))

\* the line "(Excluded n records with ambiguous validation status)"
excluded_message(df) ==
    LET vdf == valid_results_df(df)
    IN  IF Len(vdf) # Len(df)
        THEN << [msg |-> "excluded", n |-> Len(df) - Len(vdf)] >>
        ELSE <<>>

(***************************************************************************)
(* The run of __main__: process_csv_exports over the files, then           *)
(* analyze_validation_data over the DataFrame it returns.                  *)
(***************************************************************************)
Say(m) == [msg |-> m, n |-> 0]

norm_idle == value = None /\ result = <<>>

Init ==
    /\ files \in SeqsUpTo(Files, MaxFiles)
    /\ i = 0
    /\ all_validation_data = <<>>
    /\ pc = "main"
    /\ aggregated_data = <<>>
    /\ report = NoReport
    /\ log = <<>>
    /\ norm_idle

\* __main__: no file to analyze
MainNoFiles ==
    /\ pc = "main"
    /\ files = <<>>
    /\ pc' = "done"
    /\ log' = Append(log, Say("no_files"))
    /\ UNCHANGED <<files, i, all_validation_data, aggregated_data, report, value, result>>

\* __main__ calls process_csv_exports, which starts its loop
StartProcessing ==
    /\ pc = "main"
    /\ files # <<>>
    /\ pc' = "loop"
    /\ all_validation_data' = <<>>
    /\ UNCHANGED <<files, i, aggregated_data, report, log, value, result>>

\* the file does not exist or pd.read_csv raises: skipped
SkipUnreadable ==
    /\ pc = "loop"
    /\ i < Len(files)
    /\ ~readable(files[i + 1])
    /\ i' = i + 1
    /\ log' = Append(log, Say("unreadable"))
    /\ UNCHANGED <<files, all_validation_data, pc, aggregated_data, report, value, result>>

\* 'Encounter ID' or 'Note Date' is missing: skipped
SkipMissingBaseColumn ==
    /\ pc = "loop"
    /\ i < Len(files)
    /\ readable(files[i + 1])
    /\ ~has_base_columns(read_csv(files[i + 1]))
    /\ i' = i + 1
    /\ log' = Append(log, Say("missing_base_column"))
    /\ UNCHANGED <<files, all_validation_data, pc, aggregated_data, report, value, result>>

\* no column matches version_pattern: skipped
SkipNoVersions ==
    /\ pc = "loop"
    /\ i < Len(files)
    /\ readable(files[i + 1])
    /\ has_base_columns(read_csv(files[i + 1]))
    /\ version_keys_found(read_csv(files[i + 1]).columns) = {}
    /\ i' = i + 1
    /\ log' = Append(log, Say("no_versions"))
    /\ UNCHANGED <<files, all_validation_data, pc, aggregated_data, report, value, result>>

\* the file is reshaped and its records are appended
ExtractFile ==
    /\ pc = "loop"
    /\ i < Len(files)
    /\ readable(files[i + 1])
    /\ has_base_columns(read_csv(files[i + 1]))
    /\ version_keys_found(read_csv(files[i + 1]).columns) # {}
    /\ i' = i + 1
    /\ all_validation_data' = extend(all_validation_data, files[i + 1])
    /\ log' = log
               \o (IF gt_col_exists(read_csv(files[i + 1])) THEN <<>>
                   ELSE <<Say("no_ground_truth")>>)
               \o << [msg |-> "processed", n |-> Len(file_data(files[i + 1]))] >>
    /\ UNCHANGED <<files, pc, aggregated_data, report, value, result>>

\* a return from inside the loop, after the first file
ReturnData_early ==
    /\ pc = "loop"
    /\ i >= 1
    /\ pc' = "returned"
    /\ aggregated_data' = all_validation_data
    /\ log' = IF all_validation_data = <<>> THEN Append(log, Say("no_records")) ELSE log
    /\ UNCHANGED <<files, i, all_validation_data, report, value, result>>

\* the end of the loop: process_csv_exports returns the DataFrame
ReturnData ==
    /\ pc = "loop"
    /\ i = Len(files)
    /\ pc' = "returned"
    /\ aggregated_data' = all_validation_data
    /\ log' = IF all_validation_data = <<>> THEN Append(log, Say("no_records")) ELSE log
    /\ UNCHANGED <<files, i, all_validation_data, report, value, result>>

\* __main__: the DataFrame is empty
MainNoData ==
    /\ pc = "returned"
    /\ aggregated_data = <<>>
    /\ pc' = "done"
    /\ log' = Append(log, Say("no_data_processed"))
    /\ UNCHANGED <<files, i, all_validation_data, aggregated_data, report, value, result>>

\* analyze_validation_data returns early: no record has a clear status
AnalyzeNoClearStatus ==
    /\ pc = "returned"
    /\ aggregated_data # <<>>
    /\ valid_results_df(aggregated_data) = <<>>
    /\ pc' = "done"
    /\ aggregated_data' = renormalize(aggregated_data)
    /\ report' = analysis(aggregated_data)
    /\ log' = log \o excluded_message(aggregated_data) \o <<Say("no_clear_status")>>
    /\ UNCHANGED <<files, i, all_validation_data, value, result>>

\* analyze_validation_data computes the summaries
Analyze ==
    /\ pc = "returned"
    /\ aggregated_data # <<>>
    /\ valid_results_df(aggregated_data) # <<>>
    /\ pc' = "done"
    /\ aggregated_data' = renormalize(aggregated_data)
    /\ report' = analysis(aggregated_data)
    /\ log' = log \o excluded_message(aggregated_data)
    /\ UNCHANGED <<files, i, all_validation_data, value, result>>

Next ==
    \/ MainNoFiles
    \/ StartProcessing
    \/ SkipUnreadable
    \/ SkipMissingBaseColumn
    \/ SkipNoVersions
    \/ ExtractFile
    \/ ReturnData
    \/ MainNoData
    \/ AnalyzeNoClearStatus
    \/ Analyze

Spec == Init /\ [][Next]_vars

(***************************************************************************)
(* normalize_boolean_str applied to one value                              *)
(***************************************************************************)
Alphabet == { "1", "0", " ", "N", "o", "y" }

upper_char(c) ==
    IF \E k \in 1..Len(LowerCase) : LowerCase[k] = c
    THEN UpperCase[CHOOSE k \in 1..Len(LowerCase) : LowerCase[k] = c]
    ELSE c

\* a word as a reviewer may type it
Spellings(w) ==
    { w,
      [k \in 1..Len(w) |-> upper_char(w[k])],
      [k \in 1..Len(w) |-> IF k = 1 THEN upper_char(w[k]) ELSE w[k]],
      <<" ">> \o w,
      w \o <<" ", "\t">>,
      <<"\n">> \o w \o <<" ">>,
      w \o w,
      SubSeq(w, 1, Len(w) - 1) }

Words == UNION { Spellings(w) : w \in TrueWords \cup FalseWords }
         \cup { <<"m", "a", "y", "b", "e">>, <<"n", "/", "a">>, <<"1", ".", "0">>,
                <<"o", "n">>, <<"o", "f", "f">> }

Values ==
    { Bool(TRUE), Bool(FALSE), None, NaN }
    \cup { Num(n) : n \in -2..2 }
    \cup { Str(w) : w \in Words \cup SeqsUpTo(Alphabet, MaxStrLen) }

pipeline_idle ==
    /\ files = <<>>
    /\ i = 0
    /\ all_validation_data = <<>>
    /\ pc = "call"
    /\ aggregated_data = <<>>
    /\ report = NoReport
    /\ log = <<>>

InitNorm ==
    /\ value \in Values
    /\ result = <<>>
    /\ pipeline_idle

Normalize ==
    /\ pc = "call"
    /\ result = <<>>
    /\ result' = <<normalize_boolean_str(value)>>
    /\ UNCHANGED <<value, files, i, all_validation_data, pc, aggregated_data, report, log>>

NextNorm == Normalize

SpecNorm == InitNorm /\ [][NextNorm]_vars

(***************************************************************************)
(* The discovery of the version keys applied to the header of one table:   *)
(* value is the set of column names, result the set of keys found.         *)
(***************************************************************************)
DiscoveryColumns ==
    { <<"Encounter ID">>, <<"Note Date">>, <<"Ground Truth">>,
      <<"v1", "Validation", "Result">>, <<"v2", "Raw", "Prediction">>,
      <<"v1", "b", "Attribution">>, <<"a", "Comments", "Comments">>,
      <<"", "Comments">>, <<"Comments">>, <<"Validation", "Result">>,
      <<"v1", "Comments", "x">> }

InitDiscovery ==
    /\ value \in SUBSET DiscoveryColumns
    /\ result = <<>>
    /\ pipeline_idle

DiscoverVersions ==
    /\ pc = "call"
    /\ result = <<>>
    /\ result' = <<version_keys_found(value)>>
    /\ UNCHANGED <<value, files, i, all_validation_data, pc, aggregated_data, report, log>>

NextDiscovery == DiscoverVersions

SpecDiscovery == InitDiscovery /\ [][NextDiscovery]_vars

(***************************************************************************)
(* The run over two exports: file A has version v1 and three rows, two     *)
(* with a true verdict and one with a false verdict and the reason         *)
(* wrong_span; file B has version v2 and two rows, one with a true verdict *)
(* and one with a text that is no verdict.                                 *)
(***************************************************************************)
ScenarioTrue == { <<"t", "r", "u", "e">>, <<"T", "r", "u", "e">>, <<"1">>,
                  <<"y", "e", "s">> }
ScenarioFalse == { <<"f", "a", "l", "s", "e">>, <<"0">> }
ScenarioOther == { <<"n", "/", "a">>, <<"m", "a", "y", "b", "e">>,
                   <<"u", "n", "k", "n", "o", "w", "n">>, <<"?">> }

ScenarioLine(key, id, verdict, reason) ==
    ( <<"Encounter ID">> :> id @@ <<"Note Date">> :> <<"2", "5">>
      @@ <<key, "Validation", "Result">> :> verdict
      @@ <<key, "Invalid", "Reason">> :> reason )

\* file A, its false verdict in row p
ScenarioA(t, fl, p) ==
    [ name |-> "A", readable |-> TRUE,
      cols |-> { <<"Encounter ID">>, <<"Note Date">>,
                 <<"v1", "Validation", "Result">>, <<"v1", "Invalid", "Reason">> },
      lines |-> [ k \in 1..3 |->
                    IF k = p
                    THEN ScenarioLine("v1", <<"a", "0">>, fl,
                             <<"w", "r", "o", "n", "g", "_", "s", "p", "a", "n">>)
                    ELSE ScenarioLine("v1", <<"a", "1">>, t, <<>>) ] ]

\* file B, the text u in its second row
ScenarioB(t, u) ==
    [ name |-> "B", readable |-> TRUE,
      cols |-> { <<"Encounter ID">>, <<"Note Date">>,
                 <<"v2", "Validation", "Result">>, <<"v2", "Invalid", "Reason">> },
      lines |-> << ScenarioLine("v2", <<"b", "1">>, t, <<>>),
                   ScenarioLine("v2", <<"b", "2">>, u, <<>>) >> ]

InitScenario ==
    /\ \E t \in ScenarioTrue, fl \in ScenarioFalse, u \in ScenarioOther, p \in 1..3 :
         files \in { <<ScenarioA(t, fl, p), ScenarioB(t, u)>>,
                     <<ScenarioB(t, u), ScenarioA(t, fl, p)>> }
    /\ i = 0
    /\ all_validation_data = <<>>
    /\ pc = "main"
    /\ aggregated_data = <<>>
    /\ report = NoReport
    /\ log = <<>>
    /\ norm_idle

NextScenario ==
    \/ StartProcessing
    \/ ExtractFile
    \/ ReturnData
    \/ Analyze

SpecScenario == InitScenario /\ [][NextScenario]_vars

(***************************************************************************)
(* Properties.  What the specification of the program expects is written   *)
(* from the text of the files, not from the operators above.               *)
(***************************************************************************)
\* the cell of a column in line k of a file is present: the column exists
\* and the text is not a missing-value marker
PresentCell(f, k, col) == col \in f.cols /\ f.lines[k][col] \notin NaValues

\* the value a record is expected to carry for a column of line k
ExpectedCell(f, k, col) ==
    IF col \notin f.cols THEN None
    ELSE IF f.lines[k][col] \in NaValues THEN NaN
    ELSE Str(f.lines[k][col])

\* a table that extraction works on: both base columns and a version key
Analyzable(f) ==
    /\ f.readable
    /\ <<"Encounter ID">> \in f.cols
    /\ <<"Note Date">> \in f.cols
    /\ version_keys_found(f.cols) # {}

\* the records appended by the step that processes a file
NewRecords(before, after) == SubSeq(after, Len(before) + 1, Len(after))

\* C1: for a table with the identifier and date columns and at least one
\* discovered version key, extraction appends one record for (row, key)
\* exactly when the cell of <key>_Validation_Result in the row is present:
\* for every key and encounter the records are as many as the rows of the
\* encounter with a present cell, and the records of the table are as many
\* as its present Validation_Result cells.  A discovered key without a
\* Validation_Result column yields no record.
C1_RecordIffResultPresent ==
    [][ (pc = "loop" /\ i' = i + 1 /\ Analyzable(files[i + 1])) =>
        LET f == files[i + 1]
            new == NewRecords(all_validation_data, all_validation_data')
            keys == version_keys_found(f.cols)
            rows == 1..Len(f.lines)
        IN  /\ SubSeq(all_validation_data', 1, Len(all_validation_data))
                 = all_validation_data
            /\ \A vk \in keys : \A r \in rows :
                 Cardinality({ j \in 1..Len(new) :
                     /\ new[j].VersionKey = vk
                     /\ new[j].EncounterID = Str(f.lines[r][<<"Encounter ID">>]) })
                 = Cardinality({ k \in rows :
                     /\ f.lines[k][<<"Encounter ID">>] = f.lines[r][<<"Encounter ID">>]
                     /\ PresentCell(f, k, vk \o <<"Validation", "Result">>) })
            /\ Len(new) = Cardinality({ p \in rows \X keys :
                     PresentCell(f, p[1], p[2] \o <<"Validation", "Result">>) })
            /\ \A j \in 1..Len(new) :
                 (new[j].VersionKey \o <<"Validation", "Result">>) \in f.cols
      ]_vars

\* a table with a present and a missing Validation_Result cell and a
\* discovered key without Validation_Result column has been extracted
C1_Witness ==
    /\ pc = "loop"
    /\ i = 2
    /\ files[1].name = "fB" /\ Len(files[1].lines) = 1
    /\ files[2].name = "fA" /\ Len(files[2].lines) = 1
    /\ PresentCell(files[1], 1, <<"v1", "Validation", "Result">>)
    /\ PresentCell(files[2], 1, <<"v1", "Validation", "Result">>)
    /\ ~PresentCell(files[2], 1, <<"v2", "Validation", "Result">>)
    /\ Len(all_validation_data) = 2

\* a table that contributes nothing: unreadable, without 'Encounter ID' or
\* 'Note Date', or without any version column
Unanalyzable(f) ==
    \/ ~f.readable
    \/ <<"Encounter ID">> \notin f.cols
    \/ <<"Note Date">> \notin f.cols
    \/ ~ \E c \in f.cols : version_pattern_match(c)

\* the records of the first n files, the skipped ones left out
RECURSIVE RemainingRecords(_)
RemainingRecords(n) ==
    IF n = 0 THEN <<>>
    ELSE RemainingRecords(n - 1)
         \o (IF Unanalyzable(files[n]) THEN <<>> ELSE file_data(files[n]))

\* C2: a table without 'Encounter ID' or 'Note Date' or without version keys
\* contributes no record and does not stop the run: the collection is the
\* concatenation of the records of the other tables, and the loop ends only
\* after the last file.
C2_FailureIsLocal ==
    /\ pc \in {"loop", "returned", "done"} =>
         all_validation_data = RemainingRecords(i)
    /\ (pc \in {"returned", "done"} /\ files # <<>>) => i = Len(files)

\* a skipped table is followed by a table whose records are collected
C2_Witness ==
    /\ pc = "returned"
    /\ Len(files) = 2
    /\ files[1].readable /\ <<"Note Date">> \notin files[1].cols
    /\ Len(files[1].lines) = 1
    /\ ~Unanalyzable(files[2])
    /\ all_validation_data # <<>>

\* the mapping of the specification: booleans map to themselves, numbers to
\* "nonzero", strings by their trimmed lowercased text, null and missing
\* values to unknown
ClaimedValidity(v) ==
    CASE v.t = "bool" -> v
      [] v.t = "num" -> Bool(v.n # 0)
      [] v.t = "str" ->
            IF lower(strip(v.s)) \in { <<"t", "r", "u", "e">>, <<"1">>,
                                       <<"y", "e", "s">>, <<"v", "a", "l", "i", "d">> }
            THEN Bool(TRUE)
            ELSE IF lower(strip(v.s)) \in { <<"f", "a", "l", "s", "e">>, <<"0">>,
                                            <<"n", "o">>,
                                            <<"i", "n", "v", "a", "l", "i", "d">> }
            THEN Bool(FALSE)
            ELSE None
      [] OTHER -> None

\* C3: normalize_boolean_str maps every input as the specification says; in
\* particular a null or missing value maps to unknown.
C3_NormalizationMapping ==
    result # <<>> => result[1] = ClaimedValidity(value)

(***************************************************************************)
(* What the specification expects of the statistics, counted from the      *)
(* collected records.                                                      *)
(***************************************************************************)
Resolved(r) == ClaimedValidity(r.ValidationResult_Raw).t = "bool"
ResolvedTrue(r) == ClaimedValidity(r.ValidationResult_Raw) = Bool(TRUE)
ResolvedFalse(r) == ClaimedValidity(r.ValidationResult_Raw) = Bool(FALSE)

ResolvedRecords == SelectSeq(all_validation_data, Resolved)
AmbiguousCount == Len(all_validation_data) - Len(ResolvedRecords)

\* the number of resolved records of a version that satisfy a test
CountOf(vk, Test(_)) ==
    Cardinality({ k \in 1..Len(ResolvedRecords) :
        ResolvedRecords[k].VersionKey = vk /\ Test(ResolvedRecords[k]) })

RECURSIVE TotalOf(_, _)
TotalOf(f, S) ==
    IF S = {} THEN 0
    ELSE LET x == CHOOSE y \in S : TRUE
         IN  f[x] + TotalOf(f, S \ {x})

Analyzed == pc = "done" /\ report.status = "analyzed"

\* C4: the records are partitioned into resolved and ambiguous ones, both
\* counts add up to the number of records, the ambiguous count is printed
\* exactly when it is not zero, and every statistic is what the resolved
\* records alone give.
C4_AmbiguousExcludedAndCounted ==
    (pc = "done" /\ report.status # "none") =>
        /\ report.records = Len(all_validation_data)
        /\ report.analyzed = Len(ResolvedRecords)
        /\ report.analyzed + AmbiguousCount = report.records
        /\ \A k \in 1..Len(log) :
             log[k].msg = "excluded" => log[k].n = AmbiguousCount
        /\ AmbiguousCount > 0 <=> \E k \in 1..Len(log) : log[k].msg = "excluded"
        /\ report.overall = analysis(ResolvedRecords).overall
        /\ report.summary = analysis(ResolvedRecords).summary
        /\ report.reasons = analysis(ResolvedRecords).reasons
        /\ report.gt = analysis(ResolvedRecords).gt

\* statistics have been computed from a collection with an ambiguous record
C4_Witness ==
    /\ Analyzed
    /\ AmbiguousCount = 1
    /\ Len(ResolvedRecords) = 2
    /\ \E k \in 1..Len(log) : log[k] = [msg |-> "excluded", n |-> 1]

\* C5: the overall summary counts the resolved records: total is their
\* number, valid the number of true ones, invalid = total - valid the number
\* of false ones; all-true records give the rates 1 and 0; the rates are
\* computed only for total > 0.
C5_OverallSummary ==
    /\ report.overall.computed => report.overall.total > 0
    /\ Analyzed =>
        LET o == report.overall
            nTrue == Cardinality({ k \in 1..Len(ResolvedRecords) :
                                     ResolvedTrue(ResolvedRecords[k]) })
            nFalse == Cardinality({ k \in 1..Len(ResolvedRecords) :
                                      ResolvedFalse(ResolvedRecords[k]) })
        IN  /\ o.computed
            /\ o.total = Len(ResolvedRecords)
            /\ o.valid = nTrue
            /\ o.invalid = o.total - o.valid
            /\ o.invalid = nFalse
            /\ o.valid_rate = [num |-> nTrue, den |-> o.total]
            /\ o.invalid_rate = [num |-> nFalse, den |-> o.total]
            /\ nFalse = 0 =>
                 /\ o.valid = o.total /\ o.invalid = 0
                 /\ o.valid_rate.num = o.valid_rate.den /\ o.invalid_rate.num = 0

\* several resolved records, all of them true, have been summarised
C5_Witness ==
    /\ Analyzed
    /\ Len(ResolvedRecords) >= 2
    /\ \A k \in 1..Len(ResolvedRecords) : ResolvedTrue(ResolvedRecords[k])
    /\ report.overall.total = Len(ResolvedRecords)

\* C6: the per-version summary has one row for each version key with a
\* resolved record; the row counts the resolved records of the key, the
\* true ones among them and the difference, with 0 <= valid <= total and
\* total > 0; the rows add up to the overall total and valid count.
C6_PerVersionSummary ==
    Analyzed =>
        LET sm == report.summary
            keys == { ResolvedRecords[k].VersionKey : k \in 1..Len(ResolvedRecords) }
        IN  /\ report.summary_computed
            /\ DOMAIN sm = keys
            /\ \A vk \in keys :
                 /\ sm[vk].total = CountOf(vk, Resolved)
                 /\ sm[vk].valid = CountOf(vk, ResolvedTrue)
                 /\ sm[vk].invalid = sm[vk].total - sm[vk].valid
                 /\ sm[vk].valid_rate = [num |-> sm[vk].valid, den |-> sm[vk].total]
                 /\ sm[vk].invalid_rate = [num |-> sm[vk].invalid, den |-> sm[vk].total]
                 /\ 0 <= sm[vk].valid /\ sm[vk].valid <= sm[vk].total
                 /\ sm[vk].total > 0
            /\ TotalOf([vk \in keys |-> sm[vk].total], keys) = report.overall.total
            /\ TotalOf([vk \in keys |-> sm[vk].valid], keys) = report.overall.valid

\* two versions with different counts have been summarised
C6_Witness ==
    /\ Analyzed
    /\ DOMAIN report.summary = { <<"v1">>, <<"v2">> }
    /\ report.summary[<<"v1">>].total = 2 /\ report.summary[<<"v1">>].valid = 1
    /\ report.summary[<<"v2">>].total = 1 /\ report.summary[<<"v2">>].valid = 0

\* C7: the cross-tabulation counts every resolved false record in one cell
\* (a record without reason in a column of its own), so that the row totals,
\* the column totals and the grand total add up and the grand total is the
\* invalid count of the overall summary.
C7_CrossTabReconciles ==
    (Analyzed /\ report.reasons.computed) =>
        LET t == report.reasons
        IN  /\ \A vk \in t.index :
                 t.total_invalid[vk]
                   = TotalOf([c \in t.columns |-> t.cell[<<vk, c>>]], t.columns)
            /\ \A c \in t.columns :
                 t.total[c] = TotalOf([vk \in t.index |-> t.cell[<<vk, c>>]], t.index)
            /\ t.grand_total = TotalOf(t.total_invalid, t.index)
            /\ t.grand_total = report.overall.invalid

NonEmptyText(v) == v.t = "str" /\ lower(strip(v.s)) # <<>>

\* a record that takes part in the agreement table
Comparable(r) ==
    Resolved(r) /\ NonEmptyText(r.GroundTruth) /\ NonEmptyText(r.PredictedClass)

Agrees(r) ==
    Comparable(r)
    /\ lower(strip(r.PredictedClass.s)) = lower(strip(r.GroundTruth.s))

\* C8: the agreement table has a row for each version key with a resolved
\* record whose ground truth and predicted class are non-null and non-empty
\* after trimming and lowercasing; total counts these records, matches those
\* whose trimmed lowercased texts are equal, mismatches = total - matches.
C8_GroundTruthAgreement ==
    Analyzed =>
        LET g == report.gt
            keys == { ResolvedRecords[k].VersionKey :
                        k \in { m \in 1..Len(ResolvedRecords) :
                                  Comparable(ResolvedRecords[m]) } }
        IN  /\ DOMAIN g = keys
            /\ report.gt_computed <=> keys # {}
            /\ \A vk \in keys :
                 /\ g[vk].total = CountOf(vk, Comparable)
                 /\ g[vk].total > 0
                 /\ g[vk].matches = CountOf(vk, Agrees)
                 /\ g[vk].mismatches = g[vk].total - g[vk].matches
                 /\ g[vk].matches + g[vk].mismatches = g[vk].total
                 /\ g[vk].agreement_rate = [num |-> g[vk].matches, den |-> g[vk].total]
                 /\ g[vk].disagreement_rate
                      = [num |-> g[vk].mismatches, den |-> g[vk].total]

\* predicted 'Longer' has been matched with ground truth ' longer ', and a
\* record with a blank predicted class has been left out
C8_Witness ==
    /\ Analyzed
    /\ \E k \in 1..Len(ResolvedRecords) :
         /\ ResolvedRecords[k].VersionKey = <<"v1">>
         /\ ResolvedRecords[k].PredictedClass = Str(<<"L", "o", "n", "g", "e", "r">>)
         /\ ResolvedRecords[k].GroundTruth
              = Str(<<" ", "l", "o", "n", "g", "e", "r", " ">>)
    /\ \E k \in 1..Len(ResolvedRecords) :
         /\ ResolvedRecords[k].VersionKey = <<"v1">>
         /\ ResolvedRecords[k].PredictedClass = Str(<<" ", " ">>)
    /\ <<"v1">> \in DOMAIN report.gt
    /\ report.gt[<<"v1">>].total = 1
    /\ report.gt[<<"v1">>].matches = 1

\* C9: a run without files, without records or without resolved records
\* ends with a message that says so and computes none of the tables.
C9_EmptyInputIsAnOutcome ==
    (files = <<>> \/ pc = "done") =>
        ((files = <<>> \/ all_validation_data = <<>> \/ ResolvedRecords = <<>>) =>
            /\ ~report.overall.computed
            /\ ~report.summary_computed
            /\ ~report.reasons.computed
            /\ ~report.gt_computed
            /\ report.summary = <<>> /\ report.gt = <<>>
            /\ pc = "done" =>
                 /\ log # <<>>
                 /\ log[Len(log)].msg =
                      IF files = <<>> THEN "no_files"
                      ELSE IF all_validation_data = <<>> THEN "no_data_processed"
                      ELSE "no_clear_status")

\* a run whose records are all ambiguous has ended
C9_Witness ==
    /\ pc = "done"
    /\ Len(all_validation_data) = 2
    /\ ResolvedRecords = <<>>
    /\ report.status = "no_clear_status"

\* C10: a record carries the invalid reason, the comments and the predicted
\* class of the columns of its own version key and row, null where the
\* column is absent, and a null ground truth where the table has no
\* 'Ground Truth' column; no absent column suppresses a record.
C10_OptionalColumns ==
    [][ (pc = "loop" /\ i' = i + 1 /\ Analyzable(files[i + 1])) =>
        LET f == files[i + 1]
            new == NewRecords(all_validation_data, all_validation_data')
            rows == 1..Len(f.lines)
            Expected(k, vk) ==
                [ EncounterID |-> ExpectedCell(f, k, <<"Encounter ID">>),
                  NoteDate |-> ExpectedCell(f, k, <<"Note Date">>),
                  GroundTruth |-> ExpectedCell(f, k, <<"Ground Truth">>),
                  SourceFile |-> f.name,
                  VersionKey |-> vk,
                  ValidationResult_Raw |->
                      ExpectedCell(f, k, vk \o <<"Validation", "Result">>),
                  ValidationResult |->
                      ClaimedValidity(ExpectedCell(f, k, vk \o <<"Validation", "Result">>)),
                  InvalidReason |-> ExpectedCell(f, k, vk \o <<"Invalid", "Reason">>),
                  Comments |-> ExpectedCell(f, k, vk \o <<"Comments">>),
                  PredictedClass |->
                      ExpectedCell(f, k, vk \o <<"Final", "Prediction">>) ]
        IN  /\ \A j \in 1..Len(new) :
                 \E k \in rows : new[j] = Expected(k, new[j].VersionKey)
            /\ \A k \in rows : \A vk \in version_keys_found(f.cols) :
                 PresentCell(f, k, vk \o <<"Validation", "Result">>) =>
                     \E j \in 1..Len(new) : new[j] = Expected(k, vk)
      ]_vars

\* a record has been made from a table without the columns Ground Truth,
\* Invalid_Reason, Comments and Final_Prediction
C10_Witness ==
    /\ pc = "loop"
    /\ i = 1
    /\ files[1].cols \cap { <<"Ground Truth">>, <<"v1", "Invalid", "Reason">>,
                            <<"v1", "Comments">>, <<"v1", "Final", "Prediction">> } = {}
    /\ Len(all_validation_data) = 1
    /\ all_validation_data[1].VersionKey = <<"v1">>
    /\ all_validation_data[1].GroundTruth = None
    /\ all_validation_data[1].InvalidReason = None
    /\ all_validation_data[1].Comments = None
    /\ all_validation_data[1].PredictedClass = None

\* the text of the second Validation_Result cell of file B
ScenarioText ==
    LET b == CHOOSE j \in 1..Len(files) : files[j].name = "B"
    IN  files[b].lines[2][<<"v2", "Validation", "Result">>]

\* C11: files A (v1: two true, one false with reason wrong_span) and B (v2:
\* one true, one 'n/a') give: ambiguous count 1, overall resolved total 4,
\* v1 total 3 and valid 2, v2 total 1 and valid 1, and a reasons table with
\* the single row v1 and wrong_span = 1.
C11_EndToEndScenario ==
    (pc = "done" /\ ScenarioText = <<"n", "/", "a">>) =>
        /\ report.status = "analyzed"
        /\ report.records - report.analyzed = 1
        /\ \E k \in 1..Len(log) : log[k] = [msg |-> "excluded", n |-> 1]
        /\ report.overall.total = 4
        /\ DOMAIN report.summary = { <<"v1">>, <<"v2">> }
        /\ report.summary[<<"v1">>].total = 3
        /\ report.summary[<<"v1">>].valid = 2
        /\ report.summary[<<"v1">>].valid_rate = [num |-> 2, den |-> 3]
        /\ report.summary[<<"v2">>].total = 1
        /\ report.summary[<<"v2">>].valid = 1
        /\ report.summary[<<"v2">>].valid_rate = [num |-> 1, den |-> 1]
        /\ report.reasons.computed
        /\ report.reasons.index = { <<"v1">> }
        /\ report.reasons.cell[<< <<"v1">>,
               <<"w", "r", "o", "n", "g", "_", "s", "p", "a", "n">> >>] = 1

\* the same expectation for a text that pandas does not read as missing
C11_ScenarioWithOtherText ==
    (pc = "done" /\ ScenarioText \notin NaValues) =>
        /\ report.records - report.analyzed = 1
        /\ report.overall.total = 4
        /\ report.reasons.index = { <<"v1">> }

\* C12: extraction and aggregation use the same mapping: the result stored
\* in a record at extraction is the mapping of its raw value, and the
\* re-normalization of analyze_validation_data leaves every record of the
\* collection as it was.
C12_SameNormalization ==
    /\ \A k \in 1..Len(all_validation_data) :
         all_validation_data[k].ValidationResult
           = ClaimedValidity(all_validation_data[k].ValidationResult_Raw)
    /\ \A k \in 1..Len(aggregated_data) :
         aggregated_data[k].ValidationResult
           = ClaimedValidity(aggregated_data[k].ValidationResult_Raw)
    /\ pc \in {"returned", "done"} => aggregated_data = all_validation_data

\* a collection with a verdict that needs trimming and lowercasing and with
\* an ambiguous verdict has been re-normalized
C12_Witness ==
    /\ pc = "done"
    /\ report.status = "analyzed"
    /\ \E k \in 1..Len(aggregated_data) :
         /\ aggregated_data[k].ValidationResult_Raw = Str(<<"T", "R", "U", "E", " ">>)
         /\ aggregated_data[k].ValidationResult = Bool(TRUE)
    /\ \E k \in 1..Len(aggregated_data) :
         /\ aggregated_data[k].ValidationResult_Raw = Str(<<"m", "a", "y", "b", "e">>)
         /\ aggregated_data[k].ValidationResult = None

\* the resolved false records that have a reason
ReasonedInvalid ==
    SelectSeq(ResolvedRecords,
              LAMBDA r : ResolvedFalse(r) /\ r.InvalidReason.t = "str")

ClaimedKeys(cols) ==
    { SubSeq(c, 1, Len(c) - 1) :
        c \in { d \in cols : Len(d) >= 2 /\ d[Len(d)] \in {"Comments", "Attribution"} } }
    \cup
    { SubSeq(c, 1, Len(c) - 2) :
        c \in { d \in cols :
                  /\ Len(d) >= 3
                  /\ <<d[Len(d) - 1], d[Len(d)]>> \in
                       { <<"Validation", "Result">>, <<"Invalid", "Reason">>,
                         <<"Final", "Prediction">>, <<"Raw", "Prediction">>,
                         <<"Final", "Confidence">>, <<"Raw", "Confidence">> } } }

\* C14: the keys discovered in a header are exactly the prefixes p for
\* which a column is named p, '_' and one of the eight suffixes; a key may
\* contain underscores, every key is a non-empty string, and the base
\* columns yield no key.
C14_VersionKeyDiscovery ==
    result # <<>> =>
        /\ result[1] = ClaimedKeys(value)
        /\ \A key \in result[1] : key # <<"">>
        /\ result[1] = ClaimedKeys(value \ { <<"Encounter ID">>, <<"Note Date">>,
                                             <<"Ground Truth">> })

\* C14 without the clause on non-empty keys
C14_DiscoveryUpToEmptyKey ==
    result # <<>> =>
        /\ result[1] = ClaimedKeys(value)
        /\ result[1] = ClaimedKeys(value \ { <<"Encounter ID">>, <<"Note Date">>,
                                             <<"Ground Truth">> })

\* C15: analyze_validation_data starts only after every file has been
\* extracted or skipped, it runs at most once, and no record is added to
\* the collection once process_csv_exports has returned: the analysis sees
\* the complete collection.
C15_AggregationBarrier ==
    [][ /\ report' # report =>
             /\ pc = "returned" /\ pc' = "done"
             /\ i = Len(files)
             /\ report = NoReport
             /\ aggregated_data = all_validation_data
             /\ all_validation_data = RemainingRecords(Len(files))
             /\ report'.records = Len(all_validation_data)
        /\ pc \in {"returned", "done"} =>
             /\ all_validation_data' = all_validation_data
             /\ i' = i
             /\ pc' = "done"
        /\ pc = "loop" => i' \in {i, i + 1}
      ]_vars

\* the records of two files have been analysed
C15_Witness ==
    /\ Analyzed
    /\ Len(files) = 2
    /\ i = 2
    /\ \E k \in 1..Len(all_validation_data) :
         all_validation_data[k].SourceFile = files[1].name
    /\ \E k \in 1..Len(all_validation_data) :
         all_validation_data[k].SourceFile = files[2].name
    /\ files[1].name # files[2].name
    /\ report.records = Len(all_validation_data)

\* the orders in which n files can be processed
Orders(n) == { q \in [1..n -> 1..n] : \A a, b \in 1..n : q[a] = q[b] => a = b }

Reordered(q) == [k \in 1..Len(files) |-> files[q[k]]]

\* the statistics of a report
Statistics(r) ==
    [ ambiguous |-> r.records - r.analyzed,
      overall |-> r.overall,
      summary |-> r.summary,
      reasons |-> r.reasons,
      gt |-> r.gt ]

\* C16: the statistics do not depend on the order of the files: the run
\* over any reordering of the files reports the ambiguous count, the
\* overall summary, the per-version summary, the cross-tabulation and the
\* agreement table of this run, from the same records in another order.
C16_OrderInsensitive ==
    pc = "done" =>
        \A q \in Orders(Len(files)) :
            LET other == process_csv_exports(Reordered(q), Len(files))
            IN  /\ Statistics(main(Reordered(q))) = Statistics(report)
                /\ Len(other) = Len(all_validation_data)
                /\ \A k \in 1..Len(other) :
                     Cardinality({ j \in 1..Len(other) : other[j] = other[k] })
                       = Cardinality({ j \in 1..Len(all_validation_data) :
                                         all_validation_data[j] = other[k] })

\* two files whose records are collected in another order when the files
\* are swapped have been analysed
C16_Witness ==
    /\ Analyzed
    /\ Len(files) = 2
    /\ file_data(files[1]) # <<>>
    /\ file_data(files[2]) # <<>>
    /\ process_csv_exports(<<files[2], files[1]>>, 2) # all_validation_data
    /\ AmbiguousCount > 0
    /\ report.reasons.computed

====
